---- MODULE Spec2Model ----
(***************************************************************************)
(* Conversational session state machine of ImgRevSearcherPlugin            *)
(* (src/main.py): the user_states map, the message handlers of on_message  *)
(* cut at their awaits and yields, and the cleanup_loop sweep.             *)
(*                                                                         *)
(* Representation.                                                         *)
(*  - Strings of the program that are not ASCII are written in pinyin:     *)
(*    KEYWORD stands for the trigger keyword of main.py:724 and            *)
(*    AFFIRMATIVE for the reply compared at main.py:449.                   *)
(*  - A message text is the sequence of its whitespace-separated tokens    *)
(*    (so it is already stripped); <<>> is the empty text.                 *)
(*  - A timestamp is kept as its age, time.time() - state["timestamp"],    *)
(*    in seconds, saturating at AgeCap (every comparison of the program    *)
(*    is against 10 or 30). Tick adds to every age and takes from the      *)
(*    remaining sleep of cleanup_loop; its steps put a message at 0s, at   *)
(*    30s (past the 10s window, not past the 30s one) or beyond 30s.       *)
(*  - A session dict is a record; the key invalid_attempts, read with      *)
(*    setdefault(.., 0), is 0 when the dict has no such key. Absent is     *)
(*    "user_id not in self.user_states".                                   *)
(*  - The local variable `state` of a handler is a reference to the dict   *)
(*    in user_states: h[u].state is its content and h[u].linked says       *)
(*    whether user_states[u] is still that very dict.                      *)
(*  - h[u].prev_benign remembers, of the message of the user processed      *)
(*    before the current one, whether it was plainly not an attempt at an   *)
(*    engine name (see Benign) and left a collecting session in the map.    *)
(*  - One message of a user is processed at a time (the framework's        *)
(*    dispatch: spec.md section 5); users and the sweep interleave at      *)
(*    every await, and at every yield that is followed by an access to     *)
(*    user_states or to the clock.                                         *)
(***************************************************************************)
EXTENDS Integers, Sequences, FiniteSets, TLC

VARIABLES available_engines, user_states, h, sleep_left

vars == <<available_engines, user_states, h, sleep_left>>

-----------------------------------------------------------------------------
(* Program constants *)

KEYWORD == "yitusoutu"
AFFIRMATIVE == "shi"
None == "None"

SESSION_TIMEOUT == 30
CONFIRM_TIMEOUT == 10
SWEEP_INTERVAL == 600

all_engines ==
    {"animetrace", "baidu", "bing", "copyseeker", "ehentai", "google", "saucenao", "tineye"}

(* Scaled stand-ins for max_length = 4000 and the run of 50 dashes. *)
MaxLength == 8
SepLen == 2

(* Longest result text of SplitSpec. *)
MaxTextLen == 16

-----------------------------------------------------------------------------
(* Inputs *)

Users == {"u1"}

(* config["available_apis"]: nothing enabled, or everything but bing. *)
Configs == {{}, all_engines \ {"bing"}}

UrlTokens == {"https://h/a.png"}
EngineTokens == {"baidu", "Google", "bing", "foo"}
ReplyTokens == {AFFIRMATIVE, "yes"}
AttachedUrl == "https://cdn/1.jpg"

TriggerTexts ==
    {<<KEYWORD>>, <<"yitusoutubaidu">>}
    \cup {<<KEYWORD, t>> : t \in EngineTokens \cup UrlTokens}
    \cup {<<KEYWORD, t, w>> : t \in {"baidu", "foo"}, w \in UrlTokens}

PlainTexts ==
    {<<>>} \cup {<<t>> : t \in EngineTokens \cup UrlTokens \cup ReplyTokens}

Messages ==
    [text : TriggerTexts \cup PlainTexts, img_urls : {<<>>, <<AttachedUrl>>}]

TickSteps == {30, 600}
AgeCap == SESSION_TIMEOUT + 10

Min(a, b) == IF a < b THEN a ELSE b
Max(a, b) == IF a > b THEN a ELSE b

Rep(c, n) == [k \in 1..n |-> c]

(* Texts the search backend may return: one chunk; two chunks cut after a   *)
(* dash run; three chunks without any dash.                                 *)
ResultTexts ==
    { Rep("a", MaxLength - 1),
      Rep("a", MaxLength - SepLen - 1) \o Rep("-", SepLen) \o <<"b", "c", "d">>,
      Rep("e", MaxLength) \o Rep("f", MaxLength) \o <<"g">> }

-----------------------------------------------------------------------------
(* Text helpers *)

(* str.lower() on the tokens of the model. *)
LowerToken(t) == IF t = "Google" THEN "google" ELSE t

Lower(text) == [k \in 1..Len(text) |-> LowerToken(text[k])]

(* message_text.strip().startswith(KEYWORD) *)
StartsWithKeyword(text) ==
    /\ Len(text) > 0
    /\ text[1] \in {KEYWORD, "yitusoutubaidu"}

(* _is_image_url on a single token *)
IsImageUrlToken(t) == t \in UrlTokens

(* _is_image_url on a whole text: a text with a blank in it ends in the     *)
(* suffix only if its last token does and starts with https:// only if its  *)
(* first does; the texts of the model hold one token at most here.          *)
IsImageUrl(text) == Len(text) = 1 /\ IsImageUrlToken(text[1])

(* message_text in <list of engine names> *)
TextIn(text, engines) == Len(text) = 1 /\ text[1] \in engines

IsAffirmative_YesToo(text) == Lower(text) \in {<<AFFIRMATIVE>>, <<"yes">>}

(* message_text.strip().lower() == AFFIRMATIVE *)
IsAffirmative(text) == Lower(text) = <<AFFIRMATIVE>>

-----------------------------------------------------------------------------
(* _split_text_by_length *)

IsSeparatorAt(text, k) ==
    /\ k >= 0
    /\ k + SepLen <= Len(text)
    /\ \A j \in 1..SepLen : text[k + j] = "-"

(* text.rfind(separator, 0, end): the highest 0-based index at which the    *)
(* separator lies wholly inside text[0:end], or -1.                         *)
RFind(text, end) ==
    LET hits == {k \in 0..(Min(end, Len(text)) - SepLen) : IsSeparatorAt(text, k)}
    IN IF hits = {} THEN -1 ELSE CHOOSE k \in hits : \A m \in hits : m <= k

CutIndex_AtMax(text, max_length) == max_length

(* 67-70 *)
CutIndex(text, max_length) ==
    LET separator_index == RFind(text, max_length)
    IN IF separator_index # -1 /\ separator_index > max_length \div 2
       THEN separator_index + SepLen
       ELSE max_length

Rest_DropsOne(text, cut_index) == SubSeq(text, cut_index + 2, Len(text))

(* text[cut_index:] *)
Rest(text, cut_index) == SubSeq(text, cut_index + 1, Len(text))

RECURSIVE SplitLoop(_, _)
SplitLoop(text, max_length) ==
    IF text = <<>> THEN <<>>
    ELSE IF Len(text) <= max_length THEN <<text>>
    ELSE LET cut_index == CutIndex(text, max_length)
         IN <<SubSeq(text, 1, cut_index)>> \o SplitLoop(Rest(text, cut_index), max_length)

SplitTextByLength(text, max_length) ==
    IF Len(text) <= max_length THEN <<text>> ELSE SplitLoop(text, max_length)

RECURSIVE Concat(_)
Concat(parts) == IF parts = <<>> THEN <<>> ELSE Head(parts) \o Concat(Tail(parts))

-----------------------------------------------------------------------------
(* Sessions *)

Absent ==
    [step |-> "absent", age |-> 0, engine |-> None, preloaded_img |-> None,
     invalid_attempts |-> 0, result_text |-> <<>>]

(* The dict literals of _handle_initial_search_command (666-671, 679-685,   *)
(* 700-705): always step waiting_both.                                      *)
NewSession(engine, preloaded_img, invalid_attempts) ==
    [step |-> "waiting_both", age |-> 0, engine |-> engine,
     preloaded_img |-> preloaded_img, invalid_attempts |-> invalid_attempts,
     result_text |-> <<>>]

(* The dict literal of _perform_search (385-389). *)
TextConfirmSession(result_text) ==
    [step |-> "waiting_text_confirm", age |-> 0, engine |-> None,
     preloaded_img |-> None, invalid_attempts |-> 0, result_text |-> result_text]

Aged(s, d) == IF s.step = "absent" THEN s ELSE [s EXCEPT !.age = Min(AgeCap, @ + d)]

SessionExpired_AtLeast(state) == state.age >= SESSION_TIMEOUT

(* time.time() - state["timestamp"] > 30 (main.py:84, 735) *)
SessionExpired(state) == state.age > SESSION_TIMEOUT

ConfirmExpired_Uses30(state) == state.age > SESSION_TIMEOUT

(* time.time() - state["timestamp"] > 10 (main.py:445) *)
ConfirmExpired(state) == state.age > CONFIRM_TIMEOUT

-----------------------------------------------------------------------------
(* Handler frames *)

Out(kind) == [kind |-> kind, i |-> 0, n |-> 0, part |-> <<>>]

(* Node(content=[Plain("[i/n]\n" + part)]) handed to event.send *)
Forward(i, n, part) == [kind |-> "forward", i |-> i, n |-> n, part |-> part]

Idle ==
    [pc |-> "idle", text |-> <<>>, img_urls |-> <<>>, ret |-> "none",
     state |-> Absent, linked |-> FALSE,
     engine |-> None, invalid_engine |-> FALSE, disabled_engine |-> FALSE,
     url |-> None, img_buffer |-> None, updated |-> FALSE,
     result_text |-> <<>>, text_parts |-> <<>>, i |-> 0,
     out |-> <<>>, searches |-> <<>>, stopped |-> FALSE, crashed |-> FALSE,
     pre |-> Absent, term |-> {}, prev_benign |-> FALSE]

(* A context is the frame of one handler with the map entry of its user. *)
Ctx(frame, entry) == [h |-> frame, us |-> entry]

Emit(c, kind) == [c EXCEPT !.h.out = Append(@, Out(kind))]

EmitAll(c, kinds) == [c EXCEPT !.h.out = @ \o [k \in 1..Len(kinds) |-> Out(kinds[k])]]

Mutate_StoresBack(c, s) == [c EXCEPT !.h.state = s, !.us = s]

(* state[...] = ...: writes the dict `state` refers to, which is the map's  *)
(* entry only while linked.                                                 *)
Mutate(c, s) == [c EXCEPT !.h.state = s, !.us = IF c.h.linked THEN s ELSE @]

Touch(c) == Mutate(c, [c.h.state EXCEPT !.age = 0])

(* self.user_states[user_id] = state, with `state` bound to the new dict *)
Put(c, s) == [c EXCEPT !.h.state = s, !.h.linked = TRUE, !.us = s]

(* del self.user_states[user_id]: KeyError when the key is gone *)
Del(c, event) ==
    IF c.us.step = "absent"
    THEN [c EXCEPT !.h.crashed = TRUE, !.h.pc = "done",
                   !.h.term = @ \cup {event}]
    ELSE [c EXCEPT !.us = Absent, !.h.linked = FALSE,
                   !.h.term = IF c.h.linked THEN @ \cup {event} ELSE @]

(* event.stop_event() and the return of the handler *)
StopAndReturn(c) ==
    IF c.h.crashed THEN c ELSE [c EXCEPT !.h.stopped = TRUE, !.h.pc = "done"]

Return(c) == IF c.h.crashed THEN c ELSE [c EXCEPT !.h.pc = "done"]

-----------------------------------------------------------------------------
(* _send_engine_prompt: what it yields for `state` (402-414). Its yields    *)
(* are followed by no access to user_states or to the clock.                *)

PromptKinds(state, avail) ==
    IF avail = {} THEN <<"no_engines">>
    ELSE (IF state.engine = None THEN <<"engine_intro">> ELSE <<>>)
         \o << IF state.preloaded_img # None THEN "prompt_engine"
               ELSE IF state.engine # None THEN "prompt_image"
               ELSE "prompt_both" >>

PromptOuts == {"engine_intro", "prompt_engine", "prompt_image", "prompt_both",
               "please_both", "please_engine", "please_image", "send_image",
               "reply_valid_engine", "engine_chosen"}

-----------------------------------------------------------------------------
(* _perform_search *)

(* file_bytes = img_buffer.getvalue(); await self.search_model.search(...) *)
StartSearch(c, engine, img_buffer) ==
    [c EXCEPT !.h.pc = "search",
              !.h.searches = Append(@, [engine |-> engine, img |-> img_buffer])]

(* search raised: caught by the caller (496, 553, 696), not by              *)
(* _handle_waiting_image (613).                                             *)
SearchRaises(c) ==
    IF c.h.ret = "image"
    THEN [c EXCEPT !.h.crashed = TRUE, !.h.pc = "done"]
    ELSE StopAndReturn(Emit(c, "search_failed"))

SearchReturns_NoImage(c, result_text, render_ok) ==
    [c EXCEPT !.h.result_text = result_text, !.h.pc = "search_yield"]

(* search returned: draw_results, or draw_error when it raises, and the     *)
(* image is yielded by _send_image (373-382).                               *)
SearchReturns(c, result_text, render_ok) ==
    [Emit(c, IF render_ok THEN "result_image" ELSE "error_image")
        EXCEPT !.h.result_text = result_text, !.h.pc = "search_yield"]

(* yield the question, then user_states[user_id] = {...} (383-389), then    *)
(* the caller's stop_event.                                                 *)
PerformSearchStore(c) ==
    LET c1 == Emit(c, "ask_text")
        c2 == [c1 EXCEPT !.us = TextConfirmSession(c.h.result_text),
                         !.h.linked = FALSE,
                         !.h.term = IF c.h.ret = "initial" THEN @
                                    ELSE @ \cup {"completion"}]
    IN StopAndReturn(c2)

-----------------------------------------------------------------------------
(* _handle_initial_search_command *)

DisabledSession_Strike(preloaded_img) == NewSession(None, preloaded_img, 1)

(* 666-671: the dict has no key invalid_attempts *)
DisabledSession(preloaded_img) == NewSession(None, preloaded_img, 0)

InvalidSession_NoStrike(preloaded_img) == NewSession(None, preloaded_img, 0)

(* 679-685 *)
InvalidSession(preloaded_img) == NewSession(None, preloaded_img, 1)

SearchNow_Never(engine, preloaded_img) == FALSE

SearchNow_EngineOnly(engine, preloaded_img) == engine # None

(* if engine and preloaded_img (692) *)
SearchNow(engine, preloaded_img) == engine # None /\ preloaded_img # None

(* 665-709, with preloaded_img in the frame's img_buffer *)
InitialAfterDownload(c, avail) ==
    LET preloaded_img == c.h.img_buffer
    IN IF c.h.disabled_engine
       THEN LET s == DisabledSession(preloaded_img)
            IN StopAndReturn(EmitAll(Put(c, s), <<"disabled">> \o PromptKinds(s, avail)))
       ELSE IF c.h.invalid_engine
       THEN LET s == InvalidSession(preloaded_img)
            IN StopAndReturn(EmitAll(Put(c, s), <<"not_exist">> \o PromptKinds(s, avail)))
       ELSE IF SearchNow(c.h.engine, preloaded_img)
       THEN StartSearch(c, c.h.engine, preloaded_img)
       ELSE LET s == NewSession(c.h.engine, preloaded_img, 0)
            IN StopAndReturn(EmitAll(Put(c, s), PromptKinds(s, avail)))

DiscardPrior_Keeps(entry) == entry

(* if user_id in self.user_states: del self.user_states[user_id] (638-639) *)
DiscardPrior(entry) == Absent

(* 630-664, up to the await of _download_img *)
InitialCommand(c, avail) ==
    IF avail = {}
    THEN StopAndReturn(Emit(c, "no_engines"))
    ELSE
      LET parts == c.h.text
          second_is_url == Len(parts) > 1 /\ IsImageUrlToken(parts[2])
          potential_engine ==
              IF Len(parts) > 1 /\ ~second_is_url THEN LowerToken(parts[2]) ELSE None
          engine == IF potential_engine \in avail THEN potential_engine ELSE None
          disabled_engine ==
              potential_engine # None /\ potential_engine \notin avail
              /\ potential_engine \in all_engines
          invalid_engine ==
              potential_engine # None /\ potential_engine \notin avail
              /\ potential_engine \notin all_engines
          url_from_text ==
              IF second_is_url THEN parts[2]
              ELSE IF Len(parts) > 2 /\ IsImageUrlToken(parts[3]) THEN parts[3]
              ELSE None
          url == IF c.h.img_urls # <<>> THEN c.h.img_urls[1] ELSE url_from_text
          c1 == [c EXCEPT !.us = DiscardPrior(c.us),
                          !.h.ret = "initial",
                          !.h.engine = engine,
                          !.h.disabled_engine = disabled_engine,
                          !.h.invalid_engine = invalid_engine]
      IN IF url # None
         THEN [c1 EXCEPT !.h.url = url, !.h.pc = "download"]
         ELSE InitialAfterDownload(c1, avail)

-----------------------------------------------------------------------------
(* _handle_timeout *)

(* yield the notice (427): the del that follows reads user_states *)
HandleTimeout(c) == [Emit(c, "timeout") EXCEPT !.h.pc = "timeout_yield"]

(* 428-430 *)
TimeoutResume(c) ==
    StopAndReturn(IF c.us.step # "absent" THEN Del(c, "timeout") ELSE c)

-----------------------------------------------------------------------------
(* _handle_waiting_text_confirm *)

(* 444-456, up to the first await of event.send *)
HandleWaitingTextConfirm(c) ==
    IF ConfirmExpired(c.h.state)
    THEN StopAndReturn(Del(c, "confirm_expiry"))
    ELSE IF IsAffirmative(c.h.text)
    THEN [c EXCEPT !.h.text_parts = SplitTextByLength(c.h.state.result_text, MaxLength),
                   !.h.i = 1, !.h.pc = "tc_send"]
    ELSE Return(c)

ConfirmSendDone_Batch(c, ok) ==
    LET n == Len(c.h.text_parts)
        c1 == IF ok
              THEN [c EXCEPT !.h.out =
                       @ \o [k \in 1..n |-> Forward(k, n, c.h.text_parts[k])]]
              ELSE Emit(c, "send_failed")
    IN StopAndReturn(Del(c1, "confirm"))

(* one event.send settled (465-467); after the last one, 468-469 *)
ConfirmSendDone(c, ok) ==
    LET n == Len(c.h.text_parts)
        c1 == IF ok
              THEN [c EXCEPT !.h.out = Append(@, Forward(c.h.i, n, c.h.text_parts[c.h.i]))]
              ELSE Emit(c, "send_failed")
    IN IF c.h.i < n
       THEN [c1 EXCEPT !.h.i = @ + 1]
       ELSE StopAndReturn(Del(c1, "confirm"))

-----------------------------------------------------------------------------
(* The invalid-engine branch shared by _handle_waiting_engine (503-519) and *)
(* _handle_waiting_both (565-579), entered with a non-engine text.          *)

AbortReached_Never(invalid_attempts) == FALSE

(* if state["invalid_attempts"] >= 2 (512, 573) *)
AbortReached(invalid_attempts) == invalid_attempts >= 2

(* touch: _handle_waiting_engine writes the timestamp in this branch (506,  *)
(* 517); _handle_waiting_both has written it before (562).                  *)
InvalidEngineBranch(c, message_text, avail, touch) ==
    IF TextIn(message_text, all_engines) /\ ~TextIn(message_text, avail)
    THEN LET c1 == IF touch THEN Touch(Emit(c, "disabled")) ELSE Emit(c, "disabled")
         IN StopAndReturn(EmitAll(c1, PromptKinds(c1.h.state, avail)))
    ELSE LET c1 == Mutate(c, [c.h.state EXCEPT !.invalid_attempts = @ + 1])
         IN IF AbortReached(c1.h.state.invalid_attempts)
            THEN [Emit(c1, "cancel") EXCEPT !.h.pc = "abort_yield"]
            ELSE LET c2 == IF touch THEN Touch(Emit(c1, "not_exist"))
                           ELSE Emit(c1, "not_exist")
                 IN StopAndReturn(EmitAll(c2, PromptKinds(c2.h.state, avail)))

(* del self.user_states[user_id] after the cancellation notice was yielded  *)
(* (514, 575), then stop_event (520, 587).                                  *)
AbortResume(c) == StopAndReturn(Del(c, "abort"))

-----------------------------------------------------------------------------
(* _handle_waiting_engine (483-520). No dict with step waiting_engine is    *)
(* ever stored, so its yields before a timestamp write are not cut.         *)

HandleWaitingEngine(c, avail) ==
    LET message_text == Lower(c.h.text)
        c0 == [c EXCEPT !.h.ret = "engine"]
    IN IF message_text = <<>>
       THEN StopAndReturn(Touch(Emit(c0, "reply_valid_engine")))
       ELSE IF TextIn(message_text, avail)
       THEN LET c1 == Mutate(c0, [c0.h.state EXCEPT !.engine = message_text[1]])
            IN IF c1.h.state.preloaded_img # None
               THEN StartSearch(c1, c1.h.state.engine, c1.h.state.preloaded_img)
               ELSE StopAndReturn(Emit(
                        Mutate(c1, [c1.h.state EXCEPT !.step = "waiting_image", !.age = 0]),
                        "engine_chosen"))
       ELSE InvalidEngineBranch(c0, message_text, avail, TRUE)

-----------------------------------------------------------------------------
(* _handle_waiting_both *)

EngineUnset_Always(state) == TRUE

(* not state.get('engine') (538) *)
EngineUnset(state) == state.engine = None

(* not state.get('preloaded_img') (546) *)
ImageUnset(state) == state.preloaded_img = None

TouchOnNoInput_Skips(c) == c

(* state["timestamp"] = time.time() when nothing new was supplied (562) *)
TouchOnNoInput(c) == Touch(c)

(* 546-587, with the downloaded image in the frame's img_buffer *)
BothAfterDownload(c, avail) ==
    LET message_text == Lower(c.h.text)
        c1 == IF c.h.img_buffer # None /\ ImageUnset(c.h.state)
              THEN [Mutate(c, [c.h.state EXCEPT !.preloaded_img = c.h.img_buffer])
                       EXCEPT !.h.updated = TRUE]
              ELSE c
        state == c1.h.state
    IN IF state.engine # None /\ state.preloaded_img # None
       THEN StartSearch(c1, state.engine, state.preloaded_img)
       ELSE IF c1.h.updated
       THEN LET c2 == Touch(c1)
            IN StopAndReturn(EmitAll(c2, PromptKinds(c2.h.state, avail)))
       ELSE LET c2 == TouchOnNoInput(c1)
                is_invalid_engine_attempt ==
                    message_text # <<>> /\ ~IsImageUrl(message_text)
                    /\ state.engine = None
            IN IF is_invalid_engine_attempt
               THEN InvalidEngineBranch(c2, message_text, avail, FALSE)
               ELSE StopAndReturn(Emit(c2,
                        IF state.engine = None /\ state.preloaded_img = None
                        THEN "please_both"
                        ELSE IF state.engine = None THEN "please_engine"
                        ELSE "please_image"))

(* 534-545, up to the await of _download_img *)
HandleWaitingBoth(c, avail) ==
    LET message_text == Lower(c.h.text)
        c0 == [c EXCEPT !.h.ret = "both"]
        c1 == IF message_text # <<>> /\ TextIn(message_text, avail)
                 /\ EngineUnset(c0.h.state)
              THEN [Mutate(c0, [c0.h.state EXCEPT !.engine = message_text[1]])
                       EXCEPT !.h.updated = TRUE]
              ELSE c0
        url == IF c.h.img_urls # <<>> THEN c.h.img_urls[1]
               ELSE IF IsImageUrl(message_text) THEN message_text[1]
               ELSE None
    IN IF url # None
       THEN [c1 EXCEPT !.h.url = url, !.h.pc = "download"]
       ELSE BothAfterDownload(c1, avail)

-----------------------------------------------------------------------------
(* _handle_waiting_image (601-617). No dict with step waiting_image is ever *)
(* stored.                                                                  *)

ImageAfterDownload(c) ==
    IF c.h.img_buffer # None
    THEN StartSearch(c, c.h.state.engine, c.h.img_buffer)
    ELSE Return(Emit(c, "send_image"))

HandleWaitingImage(c) ==
    LET c0 == [c EXCEPT !.h.ret = "image"]
        url == IF c.h.img_urls # <<>> THEN c.h.img_urls[1]
               ELSE IF IsImageUrl(c.h.text) THEN c.h.text[1]
               ELSE None
    IN IF url # None
       THEN [c0 EXCEPT !.h.url = url, !.h.pc = "download"]
       ELSE ImageAfterDownload(c0)

-----------------------------------------------------------------------------
(* on_message (722-747) *)

Dispatch(c, avail) ==
    IF StartsWithKeyword(c.h.text)
    THEN InitialCommand(c, avail)
    ELSE IF c.us.step = "absent"
    THEN Return(c)
    ELSE LET c1 == [c EXCEPT !.h.state = c.us, !.h.linked = TRUE]
             step == c.us.step
         IN IF step = "waiting_text_confirm" THEN HandleWaitingTextConfirm(c1)
            ELSE IF SessionExpired(c1.h.state) THEN HandleTimeout(c1)
            ELSE IF step = "waiting_engine" THEN HandleWaitingEngine(c1, avail)
            ELSE IF step = "waiting_both" THEN HandleWaitingBoth(c1, avail)
            ELSE IF step = "waiting_image" THEN HandleWaitingImage(c1)
            ELSE Return(c1)

(* _download_img returned img (a buffer, named by its url, or None); the    *)
(* caller goes on.                                                          *)
AfterDownload(c, img, avail) ==
    LET c1 == [c EXCEPT !.h.img_buffer = img]
    IN IF c.h.ret = "initial" THEN InitialAfterDownload(c1, avail)
       ELSE IF c.h.ret = "both" THEN BothAfterDownload(c1, avail)
       ELSE ImageAfterDownload(c1)

-----------------------------------------------------------------------------
(* The state machine *)

Frame(u) == Ctx(h[u], user_states[u])

Commit(u, c) ==
    /\ h' = [h EXCEPT ![u] = c.h]
    /\ user_states' = [user_states EXCEPT ![u] = c.us]
    /\ UNCHANGED <<available_engines, sleep_left>>

(* A message that line 563 cannot count as an attempt at an engine name, or *)
(* that line 566 reports as a disabled name: no keyword, and its text is    *)
(* empty (with or without an attached image), or an image url, or the name  *)
(* of a catalog engine that is not enabled.                                 *)
Benign(text, img_urls, avail) ==
    /\ ~StartsWithKeyword(text)
    /\ \/ text = <<>>
       \/ IsImageUrl(text)
       \/ TextIn(Lower(text), all_engines \ avail)

(* A frame at "done" returns before anything else runs. *)
NoneReturning == \A u \in Users : h[u].pc # "done"

Init ==
    /\ available_engines \in Configs
    /\ user_states = [u \in Users |-> Absent]
    /\ h = [u \in Users |-> Idle]
    /\ sleep_left = SWEEP_INTERVAL

(* on_message is called with one of the messages msgs, up to its first      *)
(* await or cut yield.                                                      *)
OnMessageFrom(u, msgs) ==
    /\ h[u].pc = "idle"
    /\ NoneReturning
    /\ \E m \in msgs :
         Commit(u, Dispatch(
             Ctx([Idle EXCEPT !.text = m.text, !.img_urls = m.img_urls,
                              !.pre = user_states[u],
                              !.prev_benign = h[u].prev_benign],
                 user_states[u]),
             available_engines))

OnMessage(u) == OnMessageFrom(u, Messages)

DownloadDone(u) ==
    /\ h[u].pc = "download"
    /\ NoneReturning
    /\ \E img \in {None, h[u].url} :
         Commit(u, AfterDownload(Frame(u), img, available_engines))

SearchDone(u) ==
    /\ h[u].pc = "search"
    /\ NoneReturning
    /\ \/ Commit(u, SearchRaises(Frame(u)))
       \/ \E t \in ResultTexts, render_ok \in BOOLEAN :
            Commit(u, SearchReturns(Frame(u), t, render_ok))

SearchStored(u) ==
    /\ h[u].pc = "search_yield"
    /\ NoneReturning
    /\ Commit(u, PerformSearchStore(Frame(u)))

TimeoutResumed(u) ==
    /\ h[u].pc = "timeout_yield"
    /\ NoneReturning
    /\ Commit(u, TimeoutResume(Frame(u)))

AbortResumed(u) ==
    /\ h[u].pc = "abort_yield"
    /\ NoneReturning
    /\ Commit(u, AbortResume(Frame(u)))

SendDone(u) ==
    /\ h[u].pc = "tc_send"
    /\ NoneReturning
    /\ \E ok \in BOOLEAN : Commit(u, ConfirmSendDone(Frame(u), ok))

Returned(u) ==
    /\ h[u].pc = "done"
    /\ h' = [h EXCEPT ![u] =
               [Idle EXCEPT !.prev_benign =
                   /\ Benign(h[u].text, h[u].img_urls, available_engines)
                   /\ user_states[u].step \in
                        {"waiting_engine", "waiting_both", "waiting_image"}]]
    /\ UNCHANGED <<available_engines, user_states, sleep_left>>

(* The clock advances by d seconds. *)
Tick ==
    /\ NoneReturning
    /\ \E d \in TickSteps :
         /\ user_states' = [u \in DOMAIN user_states |-> Aged(user_states[u], d)]
         /\ h' = [u \in DOMAIN h |-> [h[u] EXCEPT !.state = Aged(@, d)]]
         /\ sleep_left' = Max(0, sleep_left - d)
    /\ UNCHANGED available_engines

Evicted_SparesConfirm(u) ==
    /\ user_states[u].step \notin {"absent", "waiting_text_confirm"}
    /\ SessionExpired(user_states[u])

(* user_id is in to_delete (84): the key is there and its dict is stale *)
Evicted(u) == user_states[u].step # "absent" /\ SessionExpired(user_states[u])

(* cleanup_loop: one pass after asyncio.sleep(600) (82-86), over every key   *)
(* of the map; nothing is awaited between the scan and the deletions. The   *)
(* eviction is recorded in the frame that works on the dict, or in the      *)
(* frame of a user who has no message in progress.                          *)
Sweep ==
    /\ sleep_left = 0
    /\ NoneReturning
    /\ user_states' = [u \in DOMAIN user_states |->
                         IF Evicted(u) THEN Absent ELSE user_states[u]]
    /\ h' = [u \in DOMAIN h |->
               IF Evicted(u)
               THEN [h[u] EXCEPT !.linked = FALSE,
                                 !.term = IF h[u].linked THEN @ \cup {"sweep"}
                                          ELSE IF h[u].pc = "idle" THEN {"evicted"}
                                          ELSE @]
               ELSE h[u]]
    /\ sleep_left' = SWEEP_INTERVAL
    /\ UNCHANGED available_engines

Next ==
    \/ \E u \in Users : OnMessage(u)
    \/ \E u \in Users : DownloadDone(u)
    \/ \E u \in Users : SearchDone(u)
    \/ \E u \in Users : SearchStored(u)
    \/ \E u \in Users : TimeoutResumed(u)
    \/ \E u \in Users : AbortResumed(u)
    \/ \E u \in Users : SendDone(u)
    \/ \E u \in Users : Returned(u)
    \/ Tick
    \/ Sweep

Spec == Init /\ [][Next]_vars

-----------------------------------------------------------------------------
(* The sweep over a map of several users: the map holds, for each of them,  *)
(* a session some earlier messages left there, of any step and age, no      *)
(* message is being processed, and cleanup_loop is asleep or about to wake. *)

SweepUsers == {"u1", "u2", "u3"}

SweepAges == {0, SESSION_TIMEOUT, AgeCap}

SweepSessions ==
    {Aged(s, a) :
       s \in {NewSession(e, i, n) : e \in {None, "baidu"}, i \in {None, AttachedUrl},
                                    n \in {0, 1}}
             \cup {TextConfirmSession(t) : t \in ResultTexts},
       a \in SweepAges}

SweepInit ==
    /\ available_engines = all_engines \ {"bing"}
    /\ user_states \in [SweepUsers -> SweepSessions]
    /\ h = [u \in SweepUsers |-> Idle]
    /\ sleep_left \in {0, SWEEP_INTERVAL}

SweepNext == Tick \/ Sweep

SweepSpec == SweepInit /\ [][SweepNext]_vars

-----------------------------------------------------------------------------
(* _split_text_by_length on every text: the search has stored a result text *)
(* of dashes and letters, of any length up to MaxTextLen, and the user      *)
(* sends the affirmative reply at once, so that line 450 splits it.         *)

SplitTexts == UNION {[1..n -> {"a", "-"}] : n \in 0..MaxTextLen}

SplitInit ==
    /\ available_engines = all_engines \ {"bing"}
    /\ \E t \in SplitTexts : user_states = [u \in Users |-> TextConfirmSession(t)]
    /\ h = [u \in Users |-> Idle]
    /\ sleep_left = SWEEP_INTERVAL

(* on_message with the affirmative reply, up to the first event.send *)
ConfirmReply(u) ==
    /\ h[u].pc = "idle"
    /\ Commit(u, Dispatch(
           Ctx([Idle EXCEPT !.text = <<AFFIRMATIVE>>, !.pre = user_states[u]],
               user_states[u]),
           available_engines))

SplitNext == \E u \in Users : ConfirmReply(u)

SplitSpec == SplitInit /\ [][SplitNext]_vars

-----------------------------------------------------------------------------
(* The program under fair scheduling, with the messages that create every   *)
(* kind of session: time passes, cleanup_loop wakes when its sleep is over, *)
(* and every await or yield of a handler ends (the download is bounded by   *)
(* 15s at line 168, the search by the 60s of line 43).                      *)

LiveMessages ==
    [text : {<<KEYWORD>>, <<KEYWORD, "foo">>, <<"baidu">>, <<AFFIRMATIVE>>},
     img_urls : {<<>>, <<AttachedUrl>>}]

LiveMessage(u) == OnMessageFrom(u, LiveMessages)

LiveNext ==
    \/ \E u \in Users : LiveMessage(u)
    \/ \E u \in Users : DownloadDone(u)
    \/ \E u \in Users : SearchDone(u)
    \/ \E u \in Users : SearchStored(u)
    \/ \E u \in Users : TimeoutResumed(u)
    \/ \E u \in Users : AbortResumed(u)
    \/ \E u \in Users : SendDone(u)
    \/ \E u \in Users : Returned(u)
    \/ Tick
    \/ Sweep

Fairness ==
    /\ WF_vars(Tick)
    /\ WF_vars(Sweep)
    /\ \A u \in Users :
         /\ WF_vars(DownloadDone(u))
         /\ WF_vars(SearchDone(u))
         /\ WF_vars(SearchStored(u))
         /\ WF_vars(TimeoutResumed(u))
         /\ WF_vars(AbortResumed(u))
         /\ WF_vars(SendDone(u))
         /\ WF_vars(Returned(u))

LiveSpec == Init /\ [][LiveNext]_vars /\ Fairness

-----------------------------------------------------------------------------
(* Vocabulary of the properties. A frame at "done" holds the message it     *)
(* processed (text, img_urls), the map entry found on arrival (pre), what   *)
(* was sent (out) and the calls of search (searches).                       *)

Done(u) == h[u].pc = "done"

Kinds(u) == {h[u].out[k].kind : k \in 1..Len(h[u].out)}

Stored(u) == user_states[u].step # "absent"

IsPlain(u) == ~StartsWithKeyword(h[u].text)

(* The entry found on arrival was a live session still collecting pieces. *)
PreCollecting(u) ==
    /\ h[u].pre.step \in {"waiting_engine", "waiting_both", "waiting_image"}
    /\ h[u].pre.age <= SESSION_TIMEOUT

(* The entry found on arrival was a text-confirm session. *)
PreConfirm(u) == h[u].pre.step = "waiting_text_confirm"

(* A text that is one token naming no engine of the catalog and no image. *)
UnknownEngineText(text) ==
    /\ Len(text) = 1
    /\ LowerToken(text[1]) \notin all_engines
    /\ ~IsImageUrlToken(text[1])

-----------------------------------------------------------------------------
(* C1: two strikes. (a) After a trigger command whose only token after the  *)
(* keyword is an unknown engine name, the map holds a session of that user  *)
(* with invalid_attempts = 1 (some engine being enabled). (b) If the next   *)
(* message, within 30s and without an image, is again an unknown name, the  *)
(* session is deleted and the cancellation notice is sent. (c) If it names  *)
(* an enabled engine instead, nothing is cancelled and that engine is       *)
(* recorded: the image prompt follows, or the search on the preloaded       *)
(* image.                                                                   *)
C1_TwoStrikes ==
    \A u \in Users :
      Done(u) =>
        /\ ( /\ available_engines # {}
             /\ Len(h[u].text) = 2
             /\ h[u].text[1] = KEYWORD
             /\ UnknownEngineText(<<h[u].text[2]>>) )
           => /\ Stored(u)
              /\ user_states[u].invalid_attempts = 1
        /\ ( /\ PreCollecting(u)
             /\ h[u].pre.invalid_attempts = 1
             /\ h[u].pre.engine = None
             /\ IsPlain(u)
             /\ h[u].img_urls = <<>> )
           => /\ UnknownEngineText(h[u].text)
                 => /\ ~Stored(u)
                    /\ "cancel" \in Kinds(u)
              /\ TextIn(Lower(h[u].text), available_engines)
                 => /\ "cancel" \notin Kinds(u)
                    /\ IF h[u].pre.preloaded_img # None
                       THEN h[u].searches =
                              << [engine |-> Lower(h[u].text)[1],
                                  img |-> h[u].pre.preloaded_img] >>
                       ELSE /\ Stored(u)
                            /\ user_states[u].engine = Lower(h[u].text)[1]
                            /\ "prompt_image" \in Kinds(u)
                            /\ h[u].searches = <<>>

C1_Witness ==
    \E u \in Users :
      /\ Done(u)
      /\ PreCollecting(u)
      /\ h[u].pre.invalid_attempts = 1
      /\ h[u].pre.engine = None
      /\ IsPlain(u)
      /\ h[u].img_urls = <<>>
      /\ UnknownEngineText(h[u].text)
      /\ "cancel" \in Kinds(u)
      /\ ~Stored(u)

-----------------------------------------------------------------------------
(* C2: a trigger command with a known, enabled engine token and an attached *)
(* image whose fetch succeeds calls search exactly once, on that engine and *)
(* image, sends no prompt for an engine or an image, and leaves no          *)
(* collecting session in the map.                                           *)
C2_ImmediateSearch ==
    \A u \in Users :
      ( /\ Done(u)
        /\ Len(h[u].text) >= 2
        /\ h[u].text[1] = KEYWORD
        /\ LowerToken(h[u].text[2]) \in available_engines
        /\ h[u].img_urls # <<>>
        /\ h[u].img_buffer # None )
      => /\ h[u].searches =
              << [engine |-> LowerToken(h[u].text[2]), img |-> h[u].img_urls[1]] >>
         /\ Kinds(u) \subseteq {"result_image", "error_image", "ask_text", "search_failed"}
         /\ user_states[u].step \in {"absent", "waiting_text_confirm"}

C2_Witness ==
    \E u \in Users :
      /\ Done(u)
      /\ h[u].text = <<KEYWORD, "Google">>
      /\ h[u].img_urls = <<AttachedUrl>>
      /\ h[u].img_buffer = AttachedUrl
      /\ Len(h[u].searches) = 1
      /\ user_states[u].step = "waiting_text_confirm"

-----------------------------------------------------------------------------
(* C3: for a text-confirm session, the affirmative reply within 10s hands   *)
(* every chunk of pendingResultText to event.send, in order and each under  *)
(* its i/n header; the chunks concatenated are pendingResultText, so when   *)
(* no send fails the whole text is delivered (a failed send is replaced by  *)
(* its failure notice); and the session is absent afterwards.               *)
C3_ConfirmDelivers ==
    \A u \in Users :
      ( /\ Done(u)
        /\ PreConfirm(u)
        /\ h[u].pre.age <= CONFIRM_TIMEOUT
        /\ h[u].text = <<AFFIRMATIVE>> )
      => LET out == h[u].out
             n == Len(out)
         IN /\ ~Stored(u)
            /\ n >= 1
            /\ \A k \in 1..n :
                 \/ out[k].kind = "send_failed"
                 \/ /\ out[k].kind = "forward"
                    /\ out[k].i = k
                    /\ out[k].n = n
                    /\ out[k].part = h[u].text_parts[k]
            /\ Len(h[u].text_parts) = n
            /\ Concat(h[u].text_parts) = h[u].pre.result_text
            /\ (\A k \in 1..n : out[k].kind = "forward")
                 => Concat([k \in 1..n |-> out[k].part]) = h[u].pre.result_text

C3_Witness ==
    \E u \in Users :
      /\ Done(u)
      /\ PreConfirm(u)
      /\ h[u].pre.age <= CONFIRM_TIMEOUT
      /\ h[u].text = <<AFFIRMATIVE>>
      /\ Len(h[u].out) = 3
      /\ \A k \in 1..3 : h[u].out[k].kind = "forward"
      /\ ~Stored(u)

-----------------------------------------------------------------------------
(* C4: single chance. For a text-confirm session, any message other than    *)
(* the affirmative reply (and other than a trigger command) within the 10s  *)
(* window delivers no text and leaves the session absent.                   *)
C4_SingleChance ==
    \A u \in Users :
      ( /\ Done(u)
        /\ PreConfirm(u)
        /\ h[u].pre.age <= CONFIRM_TIMEOUT
        /\ IsPlain(u)
        /\ h[u].text # <<AFFIRMATIVE>> )
      => /\ "forward" \notin Kinds(u)
         /\ ~Stored(u)

-----------------------------------------------------------------------------
(* C5: for a text-confirm session, a message (not a trigger command) that   *)
(* arrives more than 10s after the search, the affirmative reply included,  *)
(* deletes the session and does nothing else: no text, no timeout or        *)
(* cancellation notice, no search; the 30s check is never reached.          *)
C5_ConfirmExpirySilent ==
    \A u \in Users :
      ( /\ Done(u)
        /\ PreConfirm(u)
        /\ h[u].pre.age > CONFIRM_TIMEOUT
        /\ IsPlain(u) )
      => /\ ~Stored(u)
         /\ h[u].out = <<>>
         /\ h[u].searches = <<>>
         /\ h[u].stopped
         /\ ~h[u].crashed

C5_Witness ==
    \E u \in Users :
      /\ Done(u)
      /\ PreConfirm(u)
      /\ h[u].pre.age > CONFIRM_TIMEOUT
      /\ h[u].pre.age <= SESSION_TIMEOUT
      /\ h[u].text = <<AFFIRMATIVE>>
      /\ ~Stored(u)
      /\ h[u].out = <<>>

-----------------------------------------------------------------------------
(* C6: in a session whose engine is fixed and that waits for an image only, *)
(* a message that supplies no usable image does not reset lastActivity: if  *)
(* the session is still stored after the message, its timestamp is no       *)
(* younger than it was on arrival.                                          *)
C6_NoImageNoReset ==
    \A u \in Users :
      ( /\ Done(u)
        /\ PreCollecting(u)
        /\ h[u].pre.engine # None
        /\ h[u].pre.preloaded_img = None
        /\ IsPlain(u)
        /\ h[u].img_buffer = None
        /\ Stored(u) )
      => user_states[u].age >= h[u].pre.age

-----------------------------------------------------------------------------
(* C7: at most one terminal event (completion by search, inline timeout,    *)
(* two-strikes abort, sweep eviction) happens to a session instance.        *)
C7_OneTerminalEvent ==
    \A u \in Users : Cardinality(h[u].term) <= 1

-----------------------------------------------------------------------------
(* C8: whenever no message of a user is being processed, the session stored *)
(* for that user has invalid_attempts < 2; the message whose increment      *)
(* reaches 2 ends with the session deleted.                                 *)
C8_NoSecondStrikeStored ==
    \A u \in Users :
      /\ h[u].pc \in {"idle", "done"} => user_states[u].invalid_attempts < 2
      /\ (Done(u) /\ h[u].state.invalid_attempts >= 2) => ~Stored(u)

C8_Witness ==
    \E u \in Users :
      /\ Done(u)
      /\ h[u].state.invalid_attempts = 2
      /\ ~Stored(u)

-----------------------------------------------------------------------------
(* C9: write-once fields. Over every step that is not the processing of a   *)
(* trigger command and that leaves a collecting session stored, an engine   *)
(* that was set keeps its value and a preloaded image that was set is not   *)
(* replaced nor cleared.                                                    *)
C9_WriteOnce ==
    [][ \A u \in Users :
          ( /\ user_states[u].step \in {"waiting_engine", "waiting_both", "waiting_image"}
            /\ user_states'[u].step \in {"waiting_engine", "waiting_both", "waiting_image"}
            /\ h'[u].ret # "initial" )
          => /\ user_states[u].engine # None
                => user_states'[u].engine = user_states[u].engine
             /\ user_states[u].preloaded_img # None
                => user_states'[u].preloaded_img = user_states[u].preloaded_img
      ]_vars

C9_Witness ==
    \E u \in Users :
      /\ Done(u)
      /\ PreCollecting(u)
      /\ h[u].pre.engine = "baidu"
      /\ h[u].pre.preloaded_img = None
      /\ h[u].text = <<"Google">>
      /\ h[u].img_urls = <<>>
      /\ Stored(u)
      /\ user_states[u].engine = "baidu"

-----------------------------------------------------------------------------
(* C10: a message that begins with the keyword is handled as a new command  *)
(* whatever session the sender had: afterwards the map holds for that user  *)
(* either nothing, or a session just created from this message alone (its   *)
(* engine is the token of this message, its image was fetched for this      *)
(* message, its invalid_attempts is 1 only for an unknown token of this     *)
(* message), or the text-confirm session of this command's own search.      *)
C10_TriggerReplaces ==
    \A u \in Users :
      (Done(u) /\ StartsWithKeyword(h[u].text))
      => LET text == h[u].text
             token == IF Len(text) > 1 THEN LowerToken(text[2]) ELSE None
             urls == {h[u].img_urls[k] : k \in 1..Len(h[u].img_urls)}
                     \cup {text[k] : k \in 2..Len(text)}
             s == user_states[u]
         IN /\ h[u].ret \in {"initial", "none"}
            /\ \/ ~Stored(u)
               \/ /\ s.step = "waiting_text_confirm"
                  /\ Len(h[u].searches) = 1
                  /\ s = TextConfirmSession(h[u].result_text)
               \/ /\ s.step = "waiting_both"
                  /\ s.age = 0
                  /\ s.result_text = <<>>
                  /\ s.engine \in {None, token}
                  /\ s.engine # None => s.engine \in available_engines
                  /\ s.preloaded_img \in {None} \cup urls
                  /\ s.invalid_attempts =
                       (IF UnknownEngineText(<<token>>) /\ token # None THEN 1 ELSE 0)

C10_Witness ==
    \E u \in Users :
      /\ Done(u)
      /\ h[u].text = <<KEYWORD, "baidu">>
      /\ h[u].img_urls = <<>>
      /\ PreConfirm(u)
      /\ user_states[u] = NewSession("baidu", None, 0)

-----------------------------------------------------------------------------
(* C11: a pass of the sweep happens only when the 600s sleep has elapsed,   *)
(* and it removes exactly the users whose session is older than 30s at the  *)
(* time of the pass, whatever their step (text-confirm included); every     *)
(* other entry of the map is the same record after the pass, and no step    *)
(* of the sweep's clock or pass writes any field but the age.               *)
C11_SweepExact ==
    [][ /\ (sleep_left = 0 /\ sleep_left' = SWEEP_INTERVAL)
           => \A u \in DOMAIN user_states :
                user_states'[u] =
                  IF user_states[u].step # "absent"
                     /\ user_states[u].age > SESSION_TIMEOUT
                  THEN Absent
                  ELSE user_states[u]
        /\ (\E u \in DOMAIN user_states :
              user_states[u].step # "absent" /\ user_states'[u].step = "absent")
           => sleep_left = 0 /\ sleep_left' = SWEEP_INTERVAL
        /\ \A u \in DOMAIN user_states :
             user_states'[u].step # "absent"
             => [user_states'[u] EXCEPT !.age = 0] = [user_states[u] EXCEPT !.age = 0]
      ]_vars

(* Every user of SweepSpec starts with a session, so an absent one was      *)
(* evicted: a pass has just removed a user and kept a text-confirm session  *)
(* that is 30s old and a collecting one.                                    *)
C11_Witness ==
    /\ sleep_left = SWEEP_INTERVAL
    /\ DOMAIN user_states = SweepUsers
    /\ user_states["u1"].step = "absent"
    /\ user_states["u2"].step = "waiting_text_confirm"
    /\ user_states["u2"].age = SESSION_TIMEOUT
    /\ user_states["u3"].step = "waiting_both"

-----------------------------------------------------------------------------
(* C12 as stated: for a text-confirm session, the message "yes" within the  *)
(* 10s window has every chunk of the pending text handed to event.send and  *)
(* leaves the session absent, as the affirmative reply does.                *)
C12_YesAccepted ==
    \A u \in Users :
      ( /\ Done(u)
        /\ PreConfirm(u)
        /\ h[u].pre.age <= CONFIRM_TIMEOUT
        /\ h[u].text = <<"yes">> )
      => /\ ~Stored(u)
         /\ Len(h[u].out) >= 1
         /\ \A k \in 1..Len(h[u].out) : h[u].out[k].kind \in {"forward", "send_failed"}

(* C12 as amended: for a text-confirm session, the message "yes" within the *)
(* 10s window is not an affirmative reply: nothing is split, nothing is     *)
(* sent and search is not called. The affirmative reply is the only plain   *)
(* message that has a chunk forwarded.                                      *)
C12_YesNotAccepted ==
    \A u \in Users :
      ( /\ Done(u)
        /\ PreConfirm(u)
        /\ h[u].pre.age <= CONFIRM_TIMEOUT
        /\ IsPlain(u) )
      => /\ h[u].text = <<"yes">>
            => /\ h[u].out = <<>>
               /\ h[u].text_parts = <<>>
               /\ h[u].searches = <<>>
         /\ "forward" \in Kinds(u) => h[u].text = <<AFFIRMATIVE>>

C12_Witness ==
    \E u \in Users :
      /\ Done(u)
      /\ PreConfirm(u)
      /\ h[u].pre.age <= CONFIRM_TIMEOUT
      /\ h[u].pre.result_text # <<>>
      /\ h[u].text = <<"yes">>
      /\ h[u].img_urls = <<>>
      /\ h[u].out = <<>>

-----------------------------------------------------------------------------
(* C13 as stated: shape of the delivery. Every element of out is one send.  *)
(* After the affirmative reply within 10s, no send failing: a pending text  *)
(* of one chunk goes out as one send that is not a forwarded sub-message,   *)
(* and a pending text of N > 1 chunks goes out as one send holding the N    *)
(* forwarded sub-messages, not as N sends.                                  *)
C13_DeliveryShape ==
    \A u \in Users :
      ( /\ Done(u)
        /\ PreConfirm(u)
        /\ h[u].pre.age <= CONFIRM_TIMEOUT
        /\ h[u].text = <<AFFIRMATIVE>>
        /\ "send_failed" \notin Kinds(u) )
      => /\ Len(h[u].out) = 1
         /\ Len(h[u].text_parts) = 1 => h[u].out[1].kind # "forward"

(* C13 as amended: the chunks go out one send at a time, in order. Each     *)
(* step that sends during the delivery adds one element to what was sent:   *)
(* the forwarded sub-message of the current chunk under its i/N header      *)
(* (also when N = 1), or the failure notice of that send; after it the      *)
(* delivery is at the next chunk, or over after the last one.               *)
C13_OneSendPerChunk ==
    [][ \A u \in Users :
          (h[u].pc = "tc_send" /\ h'[u].out # h[u].out)
          => LET i == h[u].i
                 n == Len(h[u].text_parts)
                 m == Len(h'[u].out)
             IN /\ m = Len(h[u].out) + 1
                /\ SubSeq(h'[u].out, 1, m - 1) = h[u].out
                /\ h'[u].out[m] \in
                     {Forward(i, n, h[u].text_parts[i]), Out("send_failed")}
                /\ IF i < n
                   THEN h'[u].pc = "tc_send" /\ h'[u].i = i + 1
                   ELSE h'[u].pc = "done"
      ]_vars

(* A pending text of one chunk was delivered: one forwarded sub-message     *)
(* with the header 1/1.                                                     *)
C13_Witness ==
    \E u \in Users :
      /\ Done(u)
      /\ PreConfirm(u)
      /\ h[u].text = <<AFFIRMATIVE>>
      /\ Len(h[u].text_parts) = 1
      /\ h[u].out = <<Forward(1, 1, h[u].pre.result_text)>>

-----------------------------------------------------------------------------
(* Vocabulary of C14. The chunks are text_parts; the text the k-th cut was  *)
(* made in is what the chunks from the k-th on add up to, and the cut is    *)
(* the length of the k-th chunk. Positions are counted from 0.              *)

DashRunAt(t, k) ==
    /\ k >= 0
    /\ k + SepLen <= Len(t)
    /\ \A j \in 1..SepLen : t[k + j] = "-"

(* A run of exactly SepLen dashes: no dash right before it or after it. *)
IsolatedRunAt(t, k) ==
    /\ DashRunAt(t, k)
    /\ k = 0 \/ t[k] # "-"
    /\ k + SepLen = Len(t) \/ t[k + SepLen + 1] # "-"

CutText(parts, j) == Concat(SubSeq(parts, j, Len(parts)))

(* C14 as stated: a text no longer than maxLength is one unsplit chunk; in  *)
(* a longer text, for every cut and every run of SepLen dashes (read in the *)
(* narrowest way: a run of exactly SepLen) that begins past the midpoint of *)
(* the chunk being cut (the first maxLength characters of the text left), a *)
(* run that straddles position maxLength included, the cut is not strictly  *)
(* inside the run, and when there is such a run the cut falls immediately   *)
(* after one.                                                               *)
C14_NoCutInsideRun ==
    \A u \in Users :
      h[u].pc = "tc_send"
      => LET text == h[u].pre.result_text
             parts == h[u].text_parts
         IN /\ Len(text) <= MaxLength => parts = <<text>>
            /\ Len(text) > MaxLength =>
                 \A j \in 1..(Len(parts) - 1) :
                   LET t == CutText(parts, j)
                       c == Len(parts[j])
                       runs == {k \in 0..(MaxLength - 1) :
                                  IsolatedRunAt(t, k) /\ k > MaxLength \div 2}
                   IN /\ \A k \in runs : ~(k < c /\ c < k + SepLen)
                      /\ runs # {} => \E k \in runs : c = k + SepLen

(* C14 as amended: a text no longer than maxLength is one unsplit chunk; a  *)
(* longer text is cut into chunks that add up to it, each of 1 to maxLength *)
(* characters. For every cut, among the runs of SepLen dashes that begin    *)
(* past the midpoint and end at or before position maxLength of the text    *)
(* left, the cut falls immediately after the last one, so inside none of    *)
(* them; when there is no such run, also when a run straddles position      *)
(* maxLength, the cut is at maxLength.                                      *)
C14_CutAfterRun ==
    \A u \in Users :
      h[u].pc = "tc_send"
      => LET text == h[u].pre.result_text
             parts == h[u].text_parts
         IN /\ Len(text) <= MaxLength => parts = <<text>>
            /\ Len(text) > MaxLength =>
                 /\ Len(parts) >= 2
                 /\ Concat(parts) = text
                 /\ \A j \in 1..Len(parts) :
                      Len(parts[j]) >= 1 /\ Len(parts[j]) <= MaxLength
                 /\ \A j \in 1..(Len(parts) - 1) :
                      LET t == CutText(parts, j)
                          c == Len(parts[j])
                          runs == {k \in 0..(MaxLength - SepLen) :
                                     DashRunAt(t, k) /\ k > MaxLength \div 2}
                      IN /\ Len(t) > MaxLength
                         /\ \A k \in runs : ~(k < c /\ c < k + SepLen)
                         /\ runs # {} =>
                              \E k \in runs : /\ c = k + SepLen
                                              /\ \A m \in runs : m <= k
                         /\ runs = {} => c = MaxLength

(* A text cut twice: first right after a dash run, before position          *)
(* maxLength, then again.                                                   *)
C14_Witness ==
    \E u \in Users :
      /\ h[u].pc = "tc_send"
      /\ Len(h[u].text_parts) = 3
      /\ Len(h[u].text_parts[1]) < MaxLength
      /\ DashRunAt(h[u].text_parts[1], Len(h[u].text_parts[1]) - SepLen)

-----------------------------------------------------------------------------
(* Vocabulary of C15 and C16: the token after the keyword of a trigger      *)
(* command, lower-cased, when there is one and it is no image url.          *)

EngineToken(text) ==
    IF Len(text) > 1 /\ ~IsImageUrlToken(text[2]) THEN LowerToken(text[2]) ELSE None

(* The token names an engine of the catalog that the configuration disables *)
(* (some other engine being enabled).                                       *)
DisabledTokenCommand(u) ==
    /\ Done(u)
    /\ available_engines # {}
    /\ Len(h[u].text) > 1
    /\ h[u].text[1] = KEYWORD
    /\ EngineToken(h[u].text) \in all_engines \ available_engines

(* C15 as stated: a trigger command whose engine token names a disabled     *)
(* engine of the catalog leaves a session with invalid_attempts = 1.        *)
C15_DisabledStrike ==
    \A u \in Users :
      DisabledTokenCommand(u)
      => /\ Stored(u)
         /\ user_states[u].invalid_attempts = 1

(* C15 as amended: such a command leaves a session with no engine, with the *)
(* image fetched for it if any, and with invalid_attempts = 0: the disabled *)
(* name is reported and is no strike, unlike an unknown token.              *)
C15_DisabledNoStrike ==
    \A u \in Users :
      DisabledTokenCommand(u)
      => /\ Stored(u)
         /\ user_states[u].invalid_attempts = 0
         /\ user_states[u].engine = None
         /\ user_states[u].preloaded_img = h[u].img_buffer
         /\ "disabled" \in Kinds(u)
         /\ "not_exist" \notin Kinds(u)

C15_Witness ==
    \E u \in Users :
      /\ DisabledTokenCommand(u)
      /\ h[u].text = <<KEYWORD, "bing">>
      /\ h[u].pre.invalid_attempts = 1
      /\ Stored(u)
      /\ user_states[u].invalid_attempts = 0

-----------------------------------------------------------------------------
(* C16: the step of the session a trigger command leaves: waiting_engine    *)
(* when its engine token is unknown or disabled, waiting_image when it      *)
(* names an enabled engine (and no image was resolved), waiting_both when   *)
(* it has no engine token.                                                  *)
C16_StepAtCreation ==
    \A u \in Users :
      ( /\ Done(u)
        /\ StartsWithKeyword(h[u].text)
        /\ user_states[u].step \in {"waiting_engine", "waiting_both", "waiting_image"} )
      => user_states[u].step =
           IF h[u].invalid_engine \/ h[u].disabled_engine THEN "waiting_engine"
           ELSE IF h[u].engine # None THEN "waiting_image"
           ELSE "waiting_both"

-----------------------------------------------------------------------------
(* C17: when a message to a collecting session makes engine and image both  *)
(* present and search is called, then after the message, whether search     *)
(* returned or raised, the map holds no collecting session of the user that *)
(* carries both the engine and the preloaded image.                         *)
C17_SearchDestroysSession ==
    \A u \in Users :
      ( /\ Done(u)
        /\ PreCollecting(u)
        /\ IsPlain(u)
        /\ h[u].searches # <<>> )
      => ~( /\ user_states[u].step \in {"waiting_engine", "waiting_both", "waiting_image"}
            /\ user_states[u].engine # None
            /\ user_states[u].preloaded_img # None )

-----------------------------------------------------------------------------
(* Vocabulary of C18: the images of _perform_search among what was sent.    *)

ImageCount(out) ==
    Cardinality({k \in 1..Len(out) : out[k].kind \in {"result_image", "error_image"}})

(* C18 as stated: at the end of a message, one image (the rendered result   *)
(* or the rendered error) was sent for every call of search, whatever its   *)
(* outcome.                                                                 *)
C18_AlwaysOneImage ==
    \A u \in Users :
      Done(u) => ImageCount(h[u].out) = Len(h[u].searches)

(* C18 as amended: the step that ends a call of search sends exactly one    *)
(* image when the call returned (the result, or the error image when        *)
(* rendering raised) and goes on to the question about the text; when the   *)
(* call raised it sends no image: the handler ends there, with the failure  *)
(* notice in plain text if the caller catches the exception. No other step  *)
(* sends such an image.                                                     *)
C18_OneImageWhenReturned ==
    [][ \A u \in Users :
          LET a == ImageCount(h[u].out)
              b == ImageCount(h'[u].out)
              n == Len(h'[u].out)
          IN /\ (h[u].pc = "search" /\ h'[u].pc = "search_yield")
                => /\ n = Len(h[u].out) + 1
                   /\ b = a + 1
                   /\ h'[u].out[n].kind \in {"result_image", "error_image"}
             /\ (h[u].pc = "search" /\ h'[u].pc \notin {"search", "search_yield"})
                => /\ h'[u].pc = "done"
                   /\ b = a
                   /\ \/ h'[u].crashed
                      \/ /\ n = Len(h[u].out) + 1
                         /\ h'[u].out[n].kind = "search_failed"
             /\ h[u].pc # "search" => b <= a
      ]_vars

(* A search that returned and whose rendering raised: the error image and   *)
(* the question were sent.                                                  *)
C18_Witness ==
    \E u \in Users :
      /\ Done(u)
      /\ Len(h[u].searches) = 1
      /\ Kinds(u) = {"error_image", "ask_text"}
      /\ user_states[u].step = "waiting_text_confirm"

-----------------------------------------------------------------------------
(* C19: the two-strikes abort needs two unknown names in a row. When the    *)
(* message processed right before this one in the session was an image, an  *)
(* empty message or a disabled-engine name, this message does not cancel    *)
(* the session, whatever it says.                                           *)
C19_ConsecutiveOnly ==
    \A u \in Users :
      ( /\ Done(u)
        /\ PreCollecting(u)
        /\ IsPlain(u)
        /\ h[u].prev_benign )
      => "cancel" \notin Kinds(u)

-----------------------------------------------------------------------------
(* C20: in a live collecting session without engine, a message without      *)
(* keyword and without attachment whose text is empty, or names an engine   *)
(* of the catalog that is not enabled, leaves the session in the map with   *)
(* every field as it was except the timestamp, which is reset: the strike   *)
(* count, the engine and the preloaded image are unchanged. And a message   *)
(* to a collecting session changes the strike count of its dict only when   *)
(* its text is an unknown name (not empty, no image url, not in the         *)
(* catalog) and the session has no engine, and then by one.                 *)
C20_NoStrikeFrame ==
    \A u \in Users :
      ( /\ Done(u)
        /\ PreCollecting(u)
        /\ IsPlain(u) )
      => /\ ( /\ h[u].pre.engine = None
              /\ h[u].img_urls = <<>>
              /\ \/ h[u].text = <<>>
                 \/ /\ Len(h[u].text) = 1
                    /\ LowerToken(h[u].text[1]) \in all_engines \ available_engines )
            => /\ Stored(u)
               /\ user_states[u] = [h[u].pre EXCEPT !.age = 0]
               /\ "cancel" \notin Kinds(u)
         /\ h[u].state.invalid_attempts # h[u].pre.invalid_attempts
            => /\ UnknownEngineText(h[u].text)
               /\ h[u].pre.engine = None
               /\ h[u].state.invalid_attempts = h[u].pre.invalid_attempts + 1

(* A session with one strike, 30s old, got the name of the disabled engine: *)
(* it is still there with its strike, and its timestamp is fresh.           *)
C20_Witness ==
    \E u \in Users :
      /\ Done(u)
      /\ PreCollecting(u)
      /\ h[u].pre.engine = None
      /\ h[u].pre.invalid_attempts = 1
      /\ h[u].pre.age = SESSION_TIMEOUT
      /\ h[u].text = <<"bing">>
      /\ h[u].img_urls = <<>>
      /\ "disabled" \in Kinds(u)
      /\ user_states[u] = [h[u].pre EXCEPT !.age = 0]

-----------------------------------------------------------------------------
(* C21: inline timeout. A message without keyword that finds a collecting   *)
(* session more than 30s old gets the timeout notice and nothing else, the  *)
(* session is absent afterwards, and the message was not read as input: the *)
(* dict of the session has the engine, image and strike count it had, no    *)
(* image was fetched and search was not called. A message that finds the    *)
(* session 30s old or younger gets no timeout notice.                       *)
C21_InlineTimeout ==
    \A u \in Users :
      ( /\ Done(u)
        /\ IsPlain(u)
        /\ h[u].pre.step \in {"waiting_engine", "waiting_both", "waiting_image"} )
      => /\ h[u].pre.age > SESSION_TIMEOUT
            => /\ ~Stored(u)
               /\ h[u].out = <<Out("timeout")>>
               /\ h[u].searches = <<>>
               /\ h[u].img_buffer = None
               /\ h[u].url = None
               /\ [h[u].state EXCEPT !.age = 0] = [h[u].pre EXCEPT !.age = 0]
               /\ h[u].stopped
               /\ ~h[u].crashed
         /\ h[u].pre.age <= SESSION_TIMEOUT
            => "timeout" \notin Kinds(u)

(* A message naming an enabled engine and carrying an image found a session *)
(* older than 30s.                                                          *)
C21_Witness ==
    \E u \in Users :
      /\ Done(u)
      /\ h[u].pre.step = "waiting_both"
      /\ h[u].pre.age > SESSION_TIMEOUT
      /\ h[u].pre.engine = None
      /\ h[u].text = <<"baidu">>
      /\ h[u].img_urls = <<AttachedUrl>>
      /\ h[u].out = <<Out("timeout")>>
      /\ ~Stored(u)

-----------------------------------------------------------------------------
(* C22: no stale resurrection. An entry appears in the map (absent before   *)
(* the step, present after it) only as the fresh session of a trigger       *)
(* command, built from that command alone, or as the text-confirm session   *)
(* of a search that returned. And once the sweep has evicted the session a  *)
(* suspended handler works on, the map holds no collecting session of that  *)
(* user for as long as the handler runs, whatever it writes to its dict.    *)
C22_NoResurrection ==
    [][ \A u \in Users :
          /\ (user_states[u].step = "absent" /\ user_states'[u].step # "absent")
             => \/ /\ h'[u].ret = "initial"
                   /\ StartsWithKeyword(h'[u].text)
                   /\ user_states'[u] \in
                        {NewSession(h'[u].engine, h'[u].img_buffer, n) : n \in {0, 1}}
                \/ /\ h[u].pc = "search_yield"
                   /\ user_states'[u] = TextConfirmSession(h[u].result_text)
          /\ ("sweep" \in h[u].term /\ h'[u].pc # "idle")
             => user_states'[u].step \in {"absent", "waiting_text_confirm"}
      ]_vars

(* The sweep evicted the session while its handler was fetching an image;   *)
(* the handler then stored the image in its dict and prompted for the       *)
(* engine, and the map has no entry.                                        *)
C22_Witness ==
    \E u \in Users :
      /\ Done(u)
      /\ "sweep" \in h[u].term
      /\ h[u].pre.preloaded_img = None
      /\ h[u].state.preloaded_img # None
      /\ h[u].state.step = "waiting_both"
      /\ ~Stored(u)

-----------------------------------------------------------------------------
(* C23: no handler deletes an entry that is absent: none of the deletions   *)
(* of a handler (two-strikes abort, text-confirm expiry, text-confirm       *)
(* completion, inline timeout) ends in a KeyError.                          *)
C23_NoMissingKey ==
    \A u \in Users :
      ~( /\ h[u].crashed
         /\ h[u].term \cap {"abort", "confirm_expiry", "confirm", "timeout"} # {} )

-----------------------------------------------------------------------------
(* C24: every session in the map is eventually removed unless the user      *)
(* sends a message. From a state where a session of the user is stored and  *)
(* none of their messages is being processed, the session becomes absent,   *)
(* or a message of the user arrives; and the processing of a message always *)
(* ends.                                                                    *)
C24_EventuallyRemoved ==
    \A u \in Users :
      /\ (Stored(u) /\ h[u].pc = "idle") ~> (~Stored(u) \/ h[u].pc # "idle")
      /\ (h[u].pc # "idle") ~> (h[u].pc = "idle")

(* The sweep has evicted the session of a user who was sending nothing. *)
C24_Witness ==
    \E u \in Users :
      /\ h[u].pc = "idle"
      /\ "evicted" \in h[u].term
      /\ ~Stored(u)
      /\ sleep_left = SWEEP_INTERVAL

-----------------------------------------------------------------------------
(* C25: every call of search made so far by the handler of a user names an  *)
(* enabled engine and an image that was fetched (the attached one or the    *)
(* one of a url of the text), and there is at most one call per message;    *)
(* the engine of a stored session, and of the dict a handler works on, is   *)
(* unset or enabled.                                                        *)
C25_SearchArguments ==
    \A u \in Users :
      /\ Len(h[u].searches) <= 1
      /\ \A k \in 1..Len(h[u].searches) :
           /\ h[u].searches[k].engine \in available_engines
           /\ h[u].searches[k].img \in {AttachedUrl} \cup UrlTokens
      /\ user_states[u].engine \in {None} \cup available_engines
      /\ h[u].state.engine \in {None} \cup available_engines

(* After an unknown name, a disabled name was refused and the session then  *)
(* got an enabled engine with an image: the search ran on them.             *)
C25_Witness ==
    \E u \in Users :
      /\ Done(u)
      /\ PreCollecting(u)
      /\ h[u].pre.invalid_attempts = 1
      /\ h[u].prev_benign
      /\ h[u].text = <<"Google">>
      /\ h[u].searches = <<[engine |-> "google", img |-> AttachedUrl]>>
      /\ user_states[u].step = "waiting_text_confirm"

====
